---- MODULE Spec2Model ----
(***************************************************************************)
(* Offline-first synchronisation layer of TaskTrackerPro: the browser      *)
(* IndexedDB store (client/src/lib/expenseStore.ts), the reconciliation    *)
(* service (client/src/lib/syncService.ts) and the remote REST API         *)
(* (server/routes.ts), modelled as a state machine.  Every exported        *)
(* operation is one action; its remote requests and, where enabled, its    *)
(* storage requests have nondeterministic outcomes.                        *)
(***************************************************************************)
EXTENDS Integers, Sequences, FiniteSets, TLC

\* ---------------------------------------------------------------- bounds
MaxTripId == 2
MaxExpenseId == 2
MaxFaults == 2
MaxOps == 4
MaxFaultOps == 3
MaxPartialOps == 2
MaxDate == 2
MaxDateOps == 2
MaxCalls == 2
MaxRaceOps == 2
MaxHostOps == 3
MaxSessionOps == 4
MaxNameLen == 1
MaxFormOps == 6
MaxListOps == 4
MaxOrphanOps == 6
MaxVerifyOps == 3

CPFs == {"c1", "c2"}
Names == {"a", "b"}
NoCpf == "none"

\* ------------------------------------------------------ program constants
DB_VERSION == 2
SYNC_DB_VERSION == 1
TRIPS_STORE == "trips"
EXPENSES_STORE == "expenses"
CPF_STORE == "cpf"
AllStores == {TRIPS_STORE, EXPENSES_STORE, CPF_STORE}

\* outcome of one HTTP request: success status, non-success status,
\* network-level exception
Outcomes == {"ok", "status", "net"}

VARIABLES
  idb,      \* the browser's IndexedDB database "ExpenseTrackerDB"
  remote,   \* the server's relational store
  booted,   \* main.tsx: initializeDB() resolved and the app is rendered
  faulty,   \* storage requests may fail spontaneously in this behaviour
  scenario, \* what the behaviour starts from and exercises
  pending,  \* the updateTrip calls in flight, one slot per concurrent call
  ops,      \* number of operations performed so far
  session,  \* the page session: Router mounted, full passes it has run
  form,     \* the ExpenseModal: its fields and the last expenseData written
  last      \* the operation that completed last, with its outcome

vars == <<idb, remote, booted, faulty, scenario, pending, ops, session, form, last>>

\* ------------------------------------------------------- IndexedDB engine
\* whether the host page has window.indexedDB at all
HostHasIndexedDB == scenario # "nostorage"

EmptyStore == <<>>

AbsentDB ==
  [exists |-> FALSE, version |-> 0, stores |-> {},
   trips |-> EmptyStore, expenses |-> EmptyStore, cpf |-> EmptyStore,
   tripGen |-> 1, expGen |-> 1]

Max(a, b) == IF a >= b THEN a ELSE b

Range(s) == {s[i] : i \in DOMAIN s}

\* A machine m = [db, fs]: the database and the script of spontaneous
\* storage faults still to come (one entry consumed per open/delete request).
NextFault(m) == m.fs # <<>> /\ Head(m.fs)
RestFaults(m) == IF m.fs = <<>> THEN <<>> ELSE Tail(m.fs)

\* an open request for version v of a database that has a higher version
\* fires error with a VersionError
VersionError(db, v) == db.exists /\ v < db.version

\* indexedDB.open(DB_NAME, v) with an onupgradeneeded handler that creates
\* the stores of `up` that are missing (up = {} when there is no handler).
IdbOpen(m, v, up) ==
  IF ~HostHasIndexedDB \/ NextFault(m)
  THEN [db |-> m.db, fs |-> RestFaults(m), ok |-> FALSE]
  ELSE IF VersionError(m.db, v)
  THEN [db |-> m.db, fs |-> RestFaults(m), ok |-> FALSE]      \* VersionError
  ELSE IF m.db.exists /\ v = m.db.version
  THEN [db |-> m.db, fs |-> RestFaults(m), ok |-> TRUE]
  ELSE [db |-> [m.db EXCEPT !.exists = TRUE, !.version = v,
                            !.stores = m.db.stores \cup up],
        fs |-> RestFaults(m), ok |-> TRUE]

\* indexedDB.deleteDatabase(DB_NAME)
IdbDeleteDatabase(m) ==
  IF ~HostHasIndexedDB \/ NextFault(m)
  THEN [db |-> m.db, fs |-> RestFaults(m), ok |-> FALSE]
  ELSE [db |-> AbsentDB, fs |-> RestFaults(m), ok |-> TRUE]

\* store.put(rec) on a keyPath "id" store: insert or overwrite
StorePut(store, rec) ==
  [k \in DOMAIN store \cup {rec.id} |-> IF k = rec.id THEN rec ELSE store[k]]

\* store.delete(key): removing an absent key succeeds and changes nothing
StoreDelete(store, key) ==
  [k \in DOMAIN store \ {key} |-> store[k]]

\* the key generator after a record with explicit key `key` was stored
BumpGen(gen, key) == Max(gen, key + 1)

\* ---------------------------------------------------------- expenseStore
isIndexedDBAvailableAlways == TRUE

\* isIndexedDBAvailable(): 'indexedDB' in window
isIndexedDBAvailable == HostHasIndexedDB

\* deleteAndRecreateDB(): false at once when IndexedDB is not available;
\* otherwise delete the database, reopen it at DB_VERSION and
\* create all three stores; resolves false when either request errors.
deleteAndRecreateDB(m) ==
  LET Recreated(c) == [db |-> c.db, fs |-> c.fs, ok |-> c.ok]
      Deleted(d) == IF ~d.ok THEN [db |-> d.db, fs |-> d.fs, ok |-> FALSE]
                    ELSE Recreated(IdbOpen(d, DB_VERSION, AllStores))
  IN IF ~isIndexedDBAvailable THEN [db |-> m.db, fs |-> m.fs, ok |-> FALSE]
     ELSE Deleted(IdbDeleteDatabase(m))

\* getDB() of expenseStore.ts: open at DB_VERSION, no upgrade handler
getDB(m) == IdbOpen(m, DB_VERSION, {})

\* the outcome of a promise: the machine x reached, whether it resolved, and
\* the log of what happened on the way
WithLog(x, ok, log) == [db |-> x.db, fs |-> x.fs, ok |-> ok, log |-> log]

\* initializeDB recreating the database on every open to force a clean
\* structure, also when the open succeeded
initializeDBRecreating(m) ==
  LET Wiped(d, first) ==
        WithLog(d, d.ok, <<first, IF d.ok THEN "wipe.ok" ELSE "wipe.fail">>)
      Opened(r) ==
        Wiped(deleteAndRecreateDB(r), IF r.ok THEN "open.ok" ELSE "open.fail")
  IN Opened(IdbOpen(m, DB_VERSION, AllStores))

\* initializeDB repairing an incomplete structure by deleting and
\* recreating the database instead of adding the missing stores
initializeDBRepairByRecreate(m) ==
  LET Repaired(d) ==
        WithLog(d, d.ok, <<"open.ok", IF d.ok THEN "repair.ok" ELSE "repair.fail">>)
      Opened(r) ==
        IF ~r.ok THEN WithLog(r, FALSE, <<"open.fail">>)
        ELSE IF AllStores \subseteq r.db.stores THEN WithLog(r, TRUE, <<"open.ok">>)
        ELSE Repaired(deleteAndRecreateDB(r))
  IN Opened(IdbOpen(m, DB_VERSION, AllStores))

\* initializeDB resolving with whatever structure the open request found
initializeDBUnchecked(m) ==
  LET Opened(r) == WithLog(r, r.ok, <<IF r.ok THEN "open.ok" ELSE "open.fail">>)
  IN Opened(IdbOpen(m, DB_VERSION, AllStores))

\* initializeDB(): rejected at once when IndexedDB is not available;
\* otherwise open at DB_VERSION creating missing stores on upgrade;
\* on an open error delete and recreate the database; on an incomplete
\* structure reopen at DB_VERSION + 1 and create the missing stores; any
\* rejection is caught, the database is deleted and recreated and the
\* initialisation is retried.
RECURSIVE initializeDB(_)
initializeDB(m) ==
  LET \* request.onerror: deleteAndRecreateDB, then getDB
      Reopened(n) == WithLog(n, n.ok, <<"open.fail", "wipe.ok">>)
      OnError(d1) == IF d1.ok THEN Reopened(IdbOpen(d1, DB_VERSION, {}))
                     ELSE WithLog(d1, FALSE, <<"open.fail", "wipe.fail">>)
      \* request.onsuccess with an incomplete structure
      Repaired(u) ==
        WithLog(u, u.ok, <<"open.ok", IF u.ok THEN "repair.ok" ELSE "repair.fail">>)
      Opened(r) ==
        IF ~r.ok THEN OnError(deleteAndRecreateDB(r))
        ELSE IF AllStores \subseteq r.db.stores THEN WithLog(r, TRUE, <<"open.ok">>)
        ELSE Repaired(IdbOpen(r, DB_VERSION + 1, AllStores))
      \* catch (error): deleteAndRecreateDB, then initializeDB again
      Retried(again, pre) == [again EXCEPT !.log = pre \o again.log]
      Recreated(d2, p) ==
        IF d2.ok THEN Retried(initializeDB(d2), p.log \o <<"wipe.ok">>)
        ELSE WithLog(d2, FALSE, p.log \o <<"wipe.fail">>)
      Caught(p) == IF p.ok THEN p ELSE Recreated(deleteAndRecreateDB(p), p)
  IN IF ~isIndexedDBAvailable THEN WithLog(m, FALSE, <<"unavailable">>)
     ELSE Caught(Opened(IdbOpen(m, DB_VERSION, AllStores)))

\* the single record of the cpf store, kept under the fixed key "user"
CpfRec(cpf) == [id |-> "user", cpf |-> cpf]

putCPFByValue(db, cpf) ==
  [db EXCEPT !.cpf = StorePut(@, [id |-> cpf, cpf |-> cpf])]

\* store.put({ id: "user", cpf }) on the cpf store
putCPF(db, cpf) ==
  [db EXCEPT !.cpf = StorePut(@, CpfRec(cpf))]

\* saveCPF(cpf): initializeDB, getDB, then put {id: "user", cpf}; when the
\* cpf store is missing, reopen at DB_VERSION + 1 creating it and retry.
\* The result counts in `open` the connections the call opened and left
\* open: the one each resolved initializeDB() hands back, which is dropped;
\* the connections of getDB and of the upgrade are closed on every path.
RECURSIVE saveCPF(_, _)
saveCPF(m, cpf) ==
  LET Left(x, ok, log, k) ==
        [db |-> x.db, fs |-> x.fs, ok |-> ok, log |-> log, open |-> k]
      Retried(again, pre) ==
        [again EXCEPT !.log = pre \o again.log, !.open = @ + 1]
      Upgraded(up, i) ==
        IF up.ok THEN Retried(saveCPF(up, cpf), i.log)
        ELSE Left(up, FALSE, i.log \o <<"open.fail">>, 1)
      Opened(g, i) ==
        IF ~g.ok THEN Left(g, FALSE, i.log \o <<"open.fail">>, 1)
        ELSE IF CPF_STORE \notin g.db.stores
        THEN Upgraded(IdbOpen(g, DB_VERSION + 1, {CPF_STORE}), i)
        ELSE [db |-> putCPF(g.db, cpf), fs |-> g.fs, ok |-> TRUE,
              log |-> i.log \o <<"local.put">>, open |-> 1]
      Initialized(i) == IF ~i.ok THEN Left(i, FALSE, i.log, 0)
                        ELSE Opened(getDB(i), i)
  IN Initialized(initializeDB(m))

\* getCPF(): initializeDB, getDB, then get("user"); every failure yields
\* null.  The connection of getDB is closed on every path, the one a
\* resolved initializeDB() hands back is dropped open.
getCPF(m) ==
  LET Read(x, cpf, log, k) ==
        [db |-> x.db, fs |-> x.fs, cpf |-> cpf, log |-> log, open |-> k]
      Opened(g, i) ==
        IF ~g.ok THEN Read(g, NoCpf, i.log \o <<"open.fail">>, 1)
        ELSE IF CPF_STORE \notin g.db.stores THEN Read(g, NoCpf, i.log, 1)
        ELSE Read(g, IF "user" \in DOMAIN g.db.cpf THEN g.db.cpf["user"].cpf
                     ELSE NoCpf, i.log, 1)
      Initialized(i) == IF ~i.ok THEN Read(i, NoCpf, i.log, 0)
                        ELSE Opened(getDB(i), i)
  IN Initialized(initializeDB(m))

\* getTrip(id): the record stored under key id, or null
NoDate == 0
NoTrip == [id |-> 0, cpf |-> NoCpf, name |-> "", startDate |-> NoDate, endDate |-> NoDate]

\* the record stored for the submitted fields `trip` under key id; dates are
\* day numbers, NoDate when the field was left empty (null)
TripRec(id, trip) ==
  [id |-> id, cpf |-> trip.cpf, name |-> trip.name,
   startDate |-> trip.startDate, endDate |-> trip.endDate]
getTrip(db, id) ==
  IF id \in DOMAIN db.trips THEN db.trips[id] ELSE NoTrip

\* ---------------------------------------------------------------- remote
EmptyRemote ==
  [trips |-> EmptyStore, expenses |-> EmptyStore, nextTrip |-> 1, nextExp |-> 1]

\* POST /api/trips: the store assigns the next serial id
RemoteCreateTrip(rem, trip) ==
  [rem EXCEPT !.trips = StorePut(rem.trips, TripRec(rem.nextTrip, trip)),
              !.nextTrip = rem.nextTrip + 1]

\* PUT /api/trips/:id
RemoteUpdateTrip(rem, id, trip) ==
  [rem EXCEPT !.trips = StorePut(rem.trips, TripRec(id, trip))]

\* DELETE /api/trips/:id: the trip's expenses, then the trip, in one transaction
RemoteDeleteTrip(rem, id) ==
  [rem EXCEPT !.trips = StoreDelete(rem.trips, id),
              !.expenses = [k \in {e \in DOMAIN rem.expenses :
                                     rem.expenses[e].tripId # id}
                            |-> rem.expenses[k]]]

\* GET /api/trips/by-cpf/:cpf
RemoteTripsByCpf(rem, cpf) ==
  {rem.trips[k] : k \in {t \in DOMAIN rem.trips : rem.trips[t].cpf = cpf}}

\* GET /api/expenses/by-trip/:tripId
RemoteExpensesByTrip(rem, tripId) ==
  {rem.expenses[k] : k \in {e \in DOMAIN rem.expenses :
                              rem.expenses[e].tripId = tripId}}

\* PUT and DELETE creating the trip on the server when it is not held there
TripOutcomesUpsert(rem, id) == Outcomes

\* PUT and DELETE answer 404 for a trip the server does not hold, so a
\* success status is possible only for an existing trip.
TripOutcomes(rem, id) ==
  IF id \in DOMAIN rem.trips THEN Outcomes ELSE Outcomes \ {"ok"}

\* ------------------------------------------------------------- SyncEngine
\* addLocalTrip with the write lost: the key is consumed, nothing is stored
addLocalTripLost(db, trip) ==
  [db EXCEPT !.tripGen = db.tripGen + 1]

\* the fallback write of saveTrip: store.add(localTrip) without an id, the
\* key generator supplies the key
addLocalTrip(db, trip) ==
  [db EXCEPT !.trips = StorePut(db.trips, TripRec(db.tripGen, trip)),
             !.tripGen = db.tripGen + 1]

\* saveTrip(trip) with remote outcome o.  Remote success: store.add of the
\* record carrying the server id, errors of the local write are swallowed and
\* the server id is returned.  Remote failure: store.add of the local copy
\* under an auto-increment key, which is returned; a local error is thrown.
saveTrip(m, rem, trip, o) ==
  LET g == getDB(m)
      r == rem.nextTrip
      k == g.db.tripGen
      serverRec == TripRec(r, trip)
      usable == g.ok /\ TRIPS_STORE \in g.db.stores
  IN IF o = "ok"
     THEN IF usable /\ r \notin DOMAIN g.db.trips
          THEN [db |-> [g.db EXCEPT !.trips = StorePut(g.db.trips, serverRec),
                                    !.tripGen = BumpGen(g.db.tripGen, r)],
                fs |-> g.fs, rem |-> RemoteCreateTrip(rem, trip),
                ret |-> r, err |-> "", log |-> <<"remote.ok", "local.add">>]
          ELSE [db |-> g.db, fs |-> g.fs, rem |-> RemoteCreateTrip(rem, trip),
                ret |-> r, err |-> "",
                log |-> <<"remote.ok", "local.fail">>]
     ELSE IF usable
          THEN [db |-> addLocalTrip(g.db, trip),
                fs |-> g.fs, rem |-> rem, ret |-> k, err |-> "",
                log |-> <<"remote." \o o, "local.add">>]
          ELSE [db |-> g.db, fs |-> g.fs, rem |-> rem, ret |-> 0,
                err |-> "Storage", log |-> <<"remote." \o o, "local.fail">>]

\* the local part of updateTrip merging field by field: the stored name is
\* kept when the record already has one
LocalUpdateTripMerging(db, id, trip) ==
  [db EXCEPT !.trips =
     StorePut(db.trips, [TripRec(db.trips[id].id, trip) EXCEPT
                           !.name = db.trips[id].name])]

\* the local part of updateTrip storing the new value as a new record: the
\* old record is deleted and the value added under a generated key
LocalUpdateTripRekeyed(db, id, trip) ==
  [db EXCEPT !.trips = StorePut(StoreDelete(db.trips, id), TripRec(db.tripGen, trip)),
             !.tripGen = db.tripGen + 1]

\* the local part of updateTrip: get(id), then put {...existing, ...trip}
LocalUpdateTrip(db, id, trip) ==
  [db EXCEPT !.trips = StorePut(db.trips, TripRec(db.trips[id].id, trip))]

\* updateTrip(id, trip) with remote outcome o.  Remote success: update the
\* local record when it exists, resolve silently when it does not; a failure
\* to open the store falls through to the fallback.  Fallback: the record
\* must exist locally, otherwise "Trip not found" is thrown.
updateTrip(m, rem, id, trip, o) ==
  LET g == getDB(m)
      usable == g.ok /\ TRIPS_STORE \in g.db.stores
      g2 == getDB(g)
      usable2 == g2.ok /\ TRIPS_STORE \in g2.db.stores
      rem2 == IF o = "ok" THEN RemoteUpdateTrip(rem, id, trip) ELSE rem
      fallback(f, u, pre) ==
        IF ~u
        THEN [db |-> f.db, fs |-> f.fs, rem |-> rem2, ret |-> 0,
              err |-> "Storage", log |-> pre \o <<"local.fail">>]
        ELSE IF id \notin DOMAIN f.db.trips
        THEN [db |-> f.db, fs |-> f.fs, rem |-> rem2, ret |-> 0,
              err |-> "NotFound", log |-> pre \o <<"local.fallback">>]
        ELSE [db |-> LocalUpdateTrip(f.db, id, trip), fs |-> f.fs, rem |-> rem2,
              ret |-> 0, err |-> "", log |-> pre \o <<"local.fallback", "local.put">>]
  IN IF o = "ok"
     THEN IF ~usable THEN fallback(g2, usable2, <<"remote.ok", "local.fail">>)
          ELSE IF id \notin DOMAIN g.db.trips
          THEN [db |-> g.db, fs |-> g.fs, rem |-> rem2, ret |-> 0, err |-> "",
                log |-> <<"remote.ok">>]
          ELSE [db |-> LocalUpdateTrip(g.db, id, trip), fs |-> g.fs, rem |-> rem2,
                ret |-> 0, err |-> "", log |-> <<"remote.ok", "local.put">>]
     ELSE fallback(g, usable, <<"remote." \o o>>)

\* the end of a readwrite transaction whose requests all succeeded and
\* whose promise is already resolved: the commit either makes the changes of
\* `after` durable or fails spontaneously and rolls them all back
Commit(g, after) ==
  IF NextFault(g)
  THEN [db |-> g.db, fs |-> RestFaults(g), ok |-> TRUE, committed |-> FALSE]
  ELSE [db |-> after, fs |-> RestFaults(g), ok |-> TRUE, committed |-> TRUE]

\* deleteLocalTrip without the cascade: only the trip row is deleted
deleteLocalTripNoCascade(m, id) ==
  LET g == getDB(m)
  IN IF g.ok /\ {TRIPS_STORE, EXPENSES_STORE} \subseteq g.db.stores
     THEN Commit(g, [g.db EXCEPT !.trips = StoreDelete(g.db.trips, id)])
     ELSE [db |-> g.db, fs |-> g.fs, ok |-> FALSE, committed |-> FALSE]

\* deleteLocalTrip(id): in one transaction over trips and expenses, delete
\* every expense whose tripId is id, then the trip; the promise resolves in
\* the onsuccess of the trip's delete request, before the transaction
\* completes.
deleteLocalTrip(m, id) ==
  LET g == getDB(m)
  IN IF g.ok /\ {TRIPS_STORE, EXPENSES_STORE} \subseteq g.db.stores
     THEN Commit(g, [g.db EXCEPT
                       !.expenses = [k \in {e \in DOMAIN g.db.expenses :
                                              g.db.expenses[e].tripId # id}
                                     |-> g.db.expenses[k]],
                       !.trips = StoreDelete(g.db.trips, id)])
     ELSE [db |-> g.db, fs |-> g.fs, ok |-> FALSE, committed |-> FALSE]

\* deleteTrip(id) with remote outcome o: the remote delete, then
\* deleteLocalTrip; when the local delete after a remote success throws, the
\* catch falls through to a second deleteLocalTrip.
deleteTrip(m, rem, id, o) ==
  LET Deleted(d) ==
        [db |-> d.db, fs |-> d.fs,
         rem |-> IF o = "ok" THEN RemoteDeleteTrip(rem, id) ELSE rem,
         ret |-> 0, err |-> IF d.ok THEN "" ELSE "Storage",
         log |-> <<"remote." \o o, IF d.ok THEN "local.delete" ELSE "local.fail">>
                 \o IF d.ok /\ ~d.committed THEN <<"commit.fail">> ELSE <<>>]
      First(d1) ==
        IF o = "ok" /\ ~d1.ok THEN Deleted(deleteLocalTrip(d1, id)) ELSE Deleted(d1)
  IN First(deleteLocalTrip(m, id))

\* saveExpense(expense): store.add under an auto-increment key
saveExpense(m, exp) ==
  LET g == getDB(m)
      k == g.db.expGen
  IN IF g.ok /\ EXPENSES_STORE \in g.db.stores
     THEN [db |-> [g.db EXCEPT
                     !.expenses = StorePut(g.db.expenses,
                        [id |-> k, tripId |-> exp.tripId, note |-> exp.note]),
                     !.expGen = k + 1],
           fs |-> g.fs, ok |-> TRUE, ret |-> k]
     ELSE [db |-> g.db, fs |-> g.fs, ok |-> FALSE, ret |-> 0]

\* POST /api/trips/:tripId/expenses answers 404 for an unknown trip
ExpenseCreateOutcomes(rem, tripId) ==
  IF tripId \in DOMAIN rem.trips THEN Outcomes ELSE Outcomes \ {"ok"}

\* syncExpenseToServer(expense): POST without the local id; the server
\* assigns its own serial id
syncExpenseToServer(rem, exp, o) ==
  IF o = "ok"
  THEN [rem EXCEPT !.expenses = StorePut(rem.expenses,
                      [id |-> rem.nextExp, tripId |-> exp.tripId, note |-> exp.note]),
                   !.nextExp = rem.nextExp + 1]
  ELSE rem

\* updateExpense writing with put whether or not the record exists
updateExpenseUpsert(m, id, exp) ==
  LET g == getDB(m)
  IN IF ~(g.ok /\ EXPENSES_STORE \in g.db.stores)
     THEN [db |-> g.db, fs |-> g.fs, err |-> "Storage"]
     ELSE [db |-> [g.db EXCEPT !.expenses = StorePut(g.db.expenses,
                     [id |-> id, tripId |-> exp.tripId, note |-> exp.note])],
           fs |-> g.fs, err |-> ""]

\* updateExpense(id, expense): get(id), "Expense not found" when absent,
\* otherwise put {...existing, ...expense}
updateExpense(m, id, exp) ==
  LET g == getDB(m)
  IN IF ~(g.ok /\ EXPENSES_STORE \in g.db.stores)
     THEN [db |-> g.db, fs |-> g.fs, err |-> "Storage"]
     ELSE IF id \notin DOMAIN g.db.expenses
     THEN [db |-> g.db, fs |-> g.fs, err |-> "NotFound"]
     ELSE [db |-> [g.db EXCEPT !.expenses = StorePut(g.db.expenses,
                     [id |-> g.db.expenses[id].id, tripId |-> exp.tripId,
                      note |-> exp.note])],
           fs |-> g.fs, err |-> ""]

\* deleteExpense(id): store.delete(id)
deleteExpense(m, id) ==
  LET g == getDB(m)
  IN IF g.ok /\ EXPENSES_STORE \in g.db.stores
     THEN [db |-> [g.db EXCEPT !.expenses = StoreDelete(g.db.expenses, id)],
           fs |-> g.fs, ok |-> TRUE]
     ELSE [db |-> g.db, fs |-> g.fs, ok |-> FALSE]

\* DELETE /api/expenses/:id answers 404 for an unknown expense
ExpenseOutcomes(rem, id) ==
  IF id \in DOMAIN rem.expenses THEN Outcomes ELSE Outcomes \ {"ok"}

\* deleteExpenseFromServer(id): true exactly on a success status
deleteExpenseFromServer(rem, id, o) ==
  IF o = "ok"
  THEN [rem EXCEPT !.expenses = StoreDelete(rem.expenses, id)]
  ELSE rem

\* confirmDeleteExpense deleting locally only after a successful remote delete
confirmDeleteExpenseIfRemoteOk(m, rem, id, o) ==
  LET Deleted(d) ==
        [db |-> d.db, fs |-> d.fs, rem |-> deleteExpenseFromServer(rem, id, o),
         ret |-> 0, err |-> IF d.ok THEN "" ELSE "Storage",
         log |-> IF o = "ok" THEN <<"remote.ok", "local.delete">>
                 ELSE <<"remote." \o o>>]
  IN IF o = "ok" THEN Deleted(deleteExpense(m, id))
     ELSE Deleted([db |-> m.db, fs |-> m.fs, ok |-> TRUE])

\* confirmDeleteExpense of the expense list: deleteExpenseFromServer, whose
\* result is only logged, then deleteExpense
confirmDeleteExpense(m, rem, id, o) ==
  LET Deleted(d) ==
        [db |-> d.db, fs |-> d.fs, rem |-> deleteExpenseFromServer(rem, id, o),
         ret |-> 0, err |-> IF d.ok THEN "" ELSE "Storage",
         log |-> <<"remote." \o o, IF d.ok THEN "local.delete" ELSE "local.fail">>]
  IN Deleted(deleteExpense(m, id))

\* -------------------------------------------------- ReconciliationService
\* getDB() of syncService.ts: open at version 1, no upgrade handler
syncGetDB(m) == IdbOpen(m, SYNC_DB_VERSION, {})

MaxId(recs) ==
  IF recs = {} THEN 0 ELSE CHOOSE i \in {r.id : r \in recs} : \A r \in recs : r.id <= i

\* for each server trip: get(id), then put when present, add when absent
UpsertTrips(db, recs) ==
  [db EXCEPT
     !.trips = [k \in DOMAIN db.trips \cup {r.id : r \in recs} |->
                  IF k \in {r.id : r \in recs}
                  THEN CHOOSE r \in recs : r.id = k
                  ELSE db.trips[k]],
     !.tripGen = BumpGen(db.tripGen, MaxId(recs))]

\* getTripsByCpf(cpf) with outcome o of its fetch.  Fetch answered with
\* success: the server's trips are the result; on the way each is written
\* to the trips store (get(id), then put when present, add when absent), a
\* store that cannot be opened only being logged.  Otherwise: the result is
\* what the cpf index of the local trips store holds for cpf, and empty
\* when the store cannot be opened.
getTripsByCpf(m, rem, cpf, o) ==
  LET serverTrips == RemoteTripsByCpf(rem, cpf)
      Usable(g) == g.ok /\ TRIPS_STORE \in g.db.stores
      Synced(g) ==
        IF Usable(g)
        THEN [db |-> UpsertTrips(g.db, serverTrips), fs |-> g.fs,
              list |-> serverTrips, log |-> <<"remote.ok", "local.upsert">>]
        ELSE [db |-> g.db, fs |-> g.fs, list |-> serverTrips,
              log |-> <<"remote.ok", "local.fail">>]
      Local(g) ==
        IF Usable(g)
        THEN [db |-> g.db, fs |-> g.fs,
              list |-> {g.db.trips[k] : k \in {t \in DOMAIN g.db.trips :
                                                g.db.trips[t].cpf = cpf}},
              log |-> <<"remote." \o o, "local.list">>]
        ELSE [db |-> g.db, fs |-> g.fs, list |-> {},
              log |-> <<"remote." \o o, "local.fail">>]
  IN IF o = "ok" THEN Synced(getDB(m)) ELSE Local(getDB(m))

\* syncTripsFromServer recovering from a failed open the way initializeDB
\* does, by deleting and recreating the database
syncTripsFromServerRecreating(m, rem, cpf, o) ==
  LET Failed(d) == [db |-> d.db, fs |-> d.fs, ret |-> FALSE,
                    log |-> <<"remote.ok", "open.fail">>]
      Opened(g) ==
        IF ~(g.ok /\ TRIPS_STORE \in g.db.stores) THEN Failed(deleteAndRecreateDB(g))
        ELSE [db |-> UpsertTrips(g.db, RemoteTripsByCpf(rem, cpf)), fs |-> g.fs,
              ret |-> TRUE, log |-> <<"remote.ok", "local.upsert">>]
  IN IF o # "ok"
     THEN [db |-> m.db, fs |-> m.fs, ret |-> FALSE, log |-> <<"remote." \o o>>]
     ELSE Opened(syncGetDB(m))

\* syncTripsFromServer(cpf), o the outcome of its fetch: false on a failed
\* fetch and on any exception (store cannot be opened, trips store missing);
\* otherwise upsert every server trip and resolve true.
syncTripsFromServer(m, rem, cpf, o) ==
  LET g == syncGetDB(m)
  IN IF o # "ok"
     THEN [db |-> m.db, fs |-> m.fs, ret |-> FALSE, log |-> <<"remote." \o o>>]
     ELSE IF ~(g.ok /\ TRIPS_STORE \in g.db.stores)
     THEN [db |-> g.db, fs |-> g.fs, ret |-> FALSE,
           log |-> <<"remote.ok", "open.fail">>]
     ELSE [db |-> UpsertTrips(g.db, RemoteTripsByCpf(rem, cpf)), fs |-> g.fs,
           ret |-> TRUE, log |-> <<"remote.ok", "local.upsert">>]

\* clearLocalDatabase clearing one trip per call instead of the database
clearLocalDatabaseOneTrip(m) ==
  [db |-> IF DOMAIN m.db.trips = {} THEN m.db
          ELSE [m.db EXCEPT !.trips =
                  StoreDelete(m.db.trips,
                              CHOOSE k \in DOMAIN m.db.trips :
                                \A j \in DOMAIN m.db.trips : k <= j)],
   fs |-> m.fs, ok |-> TRUE]

\* clearLocalDatabase(): deleteAndRecreateDB, and when that reports failure
\* a second, inline delete and recreate
clearLocalDatabase(m) ==
  LET Deleted(del) ==
        IF ~del.ok THEN [db |-> del.db, fs |-> del.fs, ok |-> FALSE]
        ELSE IdbOpen(del, DB_VERSION, AllStores)
      Recreated(d) == IF d.ok THEN d ELSE Deleted(IdbDeleteDatabase(d))
  IN Recreated(deleteAndRecreateDB(m))

WipeEvent(c) == IF c.ok THEN "wipe.ok" ELSE "wipe.fail"

\* the expenses of one server trip are added in one transaction; an add that
\* errors aborts the transaction, whose oncomplete then never fires
AddExpenses(db, exps) ==
  IF \E e \in exps : e.id \in DOMAIN db.expenses
  THEN [db |-> db, done |-> FALSE]
  ELSE [db |-> [db EXCEPT
                  !.expenses = [k \in DOMAIN db.expenses \cup {e.id : e \in exps} |->
                                  IF k \in DOMAIN db.expenses THEN db.expenses[k]
                                  ELSE CHOOSE e \in exps : e.id = k],
                  !.expGen = BumpGen(db.expGen, MaxId(exps))],
        done |-> TRUE]

\* the loop of verifyAndFixDatabase over the server trips still to process:
\* add the trip, fetch its expenses (outcome oe[id]) and add them; an
\* exception skips to the next trip
RECURSIVE RestoreTrips(_, _, _, _, _)
RestoreTrips(db, rem, todo, oe, log) ==
  IF todo = {} THEN [db |-> db, ret |-> 1, log |-> log]
  ELSE
    LET t == CHOOSE x \in todo : \A y \in todo : x.id <= y.id
        rest == todo \ {t}
        withTrip == [db EXCEPT !.trips = StorePut(db.trips, t),
                               !.tripGen = BumpGen(db.tripGen, t.id)]
        exps == RemoteExpensesByTrip(rem, t.id)
        a == AddExpenses(withTrip, exps)
    IN IF TRIPS_STORE \notin db.stores \/ t.id \in DOMAIN db.trips
       THEN RestoreTrips(db, rem, rest, oe, log \o <<"trip.fail">>)
       ELSE IF oe[t.id] # "ok"
       THEN RestoreTrips(withTrip, rem, rest, oe, log \o <<"remote." \o oe[t.id]>>)
       ELSE IF exps = {}
       THEN RestoreTrips(withTrip, rem, rest, oe, log \o <<"remote.ok">>)
       ELSE IF EXPENSES_STORE \notin db.stores
       THEN RestoreTrips(withTrip, rem, rest, oe, log \o <<"remote.ok", "expenses.fail">>)
       ELSE IF ~a.done
       THEN [db |-> a.db, ret |-> -1, log |-> log \o <<"remote.ok", "hang">>]
       ELSE RestoreTrips(a.db, rem, rest, oe, log \o <<"remote.ok">>)

\* verifyAndFixDatabase with a getDB whose open request has no error
\* handler: when the open after the clearing is refused, the promise of
\* getDB never settles and the call never returns
verifyAndFixDatabaseAwaitingOpen(m, rem, cpf, o0, oe, os) ==
  LET serverTrips == RemoteTripsByCpf(rem, cpf)
      Looped(loop, g) == [db |-> loop.db, fs |-> g.fs, ret |-> loop.ret, log |-> loop.log]
      Opened(g, c) ==
        IF ~g.ok
        THEN [db |-> g.db, fs |-> g.fs, ret |-> -1,
              log |-> <<"remote.ok", WipeEvent(c), "hang">>]
        ELSE Looped(RestoreTrips(g.db, rem, serverTrips, oe,
                                 <<"remote.ok", WipeEvent(c), "open.ok">>), g)
      Cleared(c) ==
        IF serverTrips = {}
        THEN [db |-> c.db, fs |-> c.fs, ret |-> 1, log |-> <<"remote.ok", WipeEvent(c)>>]
        ELSE Opened(syncGetDB(c), c)
      Synced(s, c) ==
        [db |-> s.db, fs |-> s.fs, ret |-> 1,
         log |-> <<"remote.net", "fallback", WipeEvent(c)>> \o s.log]
      Recleared(c) == Synced(syncTripsFromServer(c, rem, cpf, os), c)
  IN IF o0 = "status"
     THEN [db |-> m.db, fs |-> m.fs, ret |-> 0, log |-> <<"remote.status">>]
     ELSE IF o0 = "net" THEN Recleared(clearLocalDatabase(m))
     ELSE Cleared(clearLocalDatabase(m))

\* verifyAndFixDatabase(cpf): o0 is the outcome of the initial fetch, oe the
\* outcomes of the per-trip expense fetches, os the outcome of the fetch of
\* the fallback syncTripsFromServer.  ret: 1 true, 0 false, -1 never returns.
verifyAndFixDatabase(m, rem, cpf, o0, oe, os) ==
  LET serverTrips == RemoteTripsByCpf(rem, cpf)
      \* catch (error): clearLocalDatabase, syncTripsFromServer, return true
      Synced(s, c2, pre) ==
        [db |-> s.db, fs |-> s.fs, ret |-> 1,
         log |-> pre \o <<"fallback", WipeEvent(c2)>> \o s.log
                     \o <<IF s.ret THEN "sync.true" ELSE "sync.false">>]
      Recleared(c2, pre) == Synced(syncTripsFromServer(c2, rem, cpf, os), c2, pre)
      fallback(f, pre) == Recleared(clearLocalDatabase(f), pre)
      \* the loop over the server trips
      Looped(loop, g) == [db |-> loop.db, fs |-> g.fs, ret |-> loop.ret, log |-> loop.log]
      Opened(g, c) ==
        IF ~g.ok THEN fallback(g, <<"remote.ok", WipeEvent(c), "open.fail">>)
        ELSE Looped(RestoreTrips(g.db, rem, serverTrips, oe,
                                 <<"remote.ok", WipeEvent(c), "open.ok">>), g)
      Cleared(c) ==
        IF serverTrips = {}
        THEN [db |-> c.db, fs |-> c.fs, ret |-> 1, log |-> <<"remote.ok", WipeEvent(c)>>]
        ELSE Opened(syncGetDB(c), c)
      \* finally: getDB() and close, errors ignored
      Closed(fin, body) ==
        [db |-> fin.db, fs |-> fin.fs, ret |-> body.ret, log |-> body.log]
      Finally(body) == Closed(syncGetDB(body), body)
  IN IF o0 = "status"
     THEN Finally([db |-> m.db, fs |-> m.fs, ret |-> 0, log |-> <<"remote.status">>])
     ELSE IF o0 = "net" THEN Finally(fallback(m, <<"remote.net">>))
     ELSE Finally(Cleared(clearLocalDatabase(m)))

\* ------------------------------------------------------------ form texts
\* What a form field holds is a text: a sequence of characters.
DigitChars == <<"0", "1", "2", "3", "4", "5", "6", "7", "8", "9">>

IsDigit(c) == \E i \in DOMAIN DigitChars : DigitChars[i] = c
DigitVal(c) == (CHOOSE i \in DOMAIN DigitChars : DigitChars[i] = c) - 1
AllDigits(t) == \A i \in DOMAIN t : IsDigit(t[i])

\* the number a sequence of digits writes in base ten (0 for none)
RECURSIVE NumVal(_)
NumVal(t) ==
  IF t = <<>> THEN 0
  ELSE NumVal(SubSeq(t, 1, Len(t) - 1)) * 10 + DigitVal(t[Len(t)])

\* the decimal digits of a natural number
RECURSIVE IntText(_)
IntText(n) ==
  IF n < 10 THEN <<DigitChars[n + 1]>>
  ELSE IntText(n \div 10) \o <<DigitChars[(n % 10) + 1]>>

RECURSIVE Pow10(_)
Pow10(n) == IF n = 0 THEN 1 ELSE 10 * Pow10(n - 1)

\* the JavaScript string of a text
RECURSIVE Str(_)
Str(t) == IF t = <<>> THEN "" ELSE Head(t) \o Str(Tail(t))

\* String.prototype.trim
RECURSIVE trimStart(_)
trimStart(t) == IF t # <<>> /\ Head(t) = " " THEN trimStart(Tail(t)) ELSE t
RECURSIVE trimEnd(_)
trimEnd(t) ==
  IF t # <<>> /\ t[Len(t)] = " " THEN trimEnd(SubSeq(t, 1, Len(t) - 1)) ELSE t
trim(t) == trimEnd(trimStart(t))

\* the position of the first c in t, 0 when there is none
Pos(t, c) ==
  IF \E i \in DOMAIN t : t[i] = c
  THEN CHOOSE i \in DOMAIN t : t[i] = c /\ \A j \in 1..(i - 1) : t[j] # c
  ELSE 0

\* the parts of a number text: mantissa "e" exponent, mantissa = int "." frac
Before(t, c) == IF Pos(t, c) = 0 THEN t ELSE SubSeq(t, 1, Pos(t, c) - 1)
After(t, c) == IF Pos(t, c) = 0 THEN <<>> ELSE SubSeq(t, Pos(t, c) + 1, Len(t))
IntPart(t) == Before(Before(t, "e"), ".")
FracPart(t) == After(Before(t, "e"), ".")
ExpPart(t) == After(t, "e")

\* a valid floating-point number without sign, the only texts besides the
\* empty one that the value of an <input type="number"> takes
ValidNumber(t) ==
  /\ AllDigits(IntPart(t)) /\ AllDigits(FracPart(t)) /\ AllDigits(ExpPart(t))
  /\ IF Pos(Before(t, "e"), ".") = 0 THEN IntPart(t) # <<>> ELSE FracPart(t) # <<>>
  /\ Pos(t, "e") # 0 => ExpPart(t) # <<>>

\* Numbers are exact decimals counted in thousandths; no text here carries a
\* sign, so -1 is free to stand for NaN.
NaN == -1
Unit == 1000

\* parseFloat of an empty or valid number text, in thousandths
parseFloat(t) ==
  IF ~ValidNumber(t) THEN NaN
  ELSE (NumVal(IntPart(t) \o FracPart(t)) * Pow10(NumVal(ExpPart(t))) * Unit)
         \div Pow10(Len(FracPart(t)))

\* parseInt: the number written by the leading digits, NaN without any
RECURSIVE LeadingDigits(_)
LeadingDigits(t) ==
  IF t = <<>> \/ ~IsDigit(Head(t)) THEN <<>>
  ELSE <<Head(t)>> \o LeadingDigits(Tail(t))
parseInt(t) == IF LeadingDigits(t) = <<>> THEN NaN ELSE NumVal(LeadingDigits(t))

\* x || 0 for a number x
OrZero(x) == IF x = NaN THEN 0 ELSE x

\* Number.prototype.toFixed(2) of a non-negative amount given in units of
\* 1/scale: the nearest hundredth, written with two decimals
toFixed2(x, scale) ==
  IntText(((x * 100 + scale \div 2) \div scale) \div 100)
    \o <<".">>
    \o <<DigitChars[((((x * 100 + scale \div 2) \div scale) % 100) \div 10) + 1],
         DigitChars[(((x * 100 + scale \div 2) \div scale) % 10) + 1]>>

\* the texts of at most n characters over the characters cs
Texts(cs, n) == UNION {[1..k -> cs] : k \in 0..n}

\* --------------------------------------------------------- expense form
MILEAGE_RATE == 109    \* 1.09, in hundredths

AmountFields ==
  {"breakfastValue", "lunchValue", "dinnerValue", "transportValue",
   "parkingValue", "otherValue"}

\* what the user may type into each amount field, the mileage field and a
\* text field
AmountTexts ==
  [breakfastValue |-> {<<>>, <<"1">>},
   lunchValue     |-> {<<>>, <<"2">>},
   dinnerValue    |-> {<<>>, <<"2", ".", "5">>},
   transportValue |-> {<<>>, <<".", "5">>},
   parkingValue   |-> {<<>>, <<"1", "e", "1">>},
   otherValue     |-> {<<>>, <<".", "0", "0", "5">>}]
MileageTexts ==
  {<<>>, <<"0">>, <<"1", "0", "0">>, <<"1", "e", "2">>, <<"1", ".", "5">>}
FieldTexts == Texts({" ", "a"}, MaxNameLen)
\* the texts typed in the behaviours that are about the amounts; the others
\* leave the amounts and the mileage empty
AmountInputs(a) == IF scenario = "forms" THEN AmountTexts[a] ELSE {<<>>}
MileageInputs == IF scenario = "forms" THEN MileageTexts ELSE {<<>>}

\* the expenseData no submission has built yet
NoData ==
  [written |-> FALSE, amounts |-> [a \in AmountFields |-> <<>>], mileage |-> 0,
   mileageValue |-> <<>>, totalValue |-> <<>>]

\* the state of a closed ExpenseModal for a new expense: the useState
\* initial values; `saved` is the expenseData of the last expense written
BlankForm ==
  [open |-> FALSE, tripId |-> 0, destination |-> <<>>, justification |-> <<>>,
   amounts |-> [a \in AmountFields |-> <<>>], mileage |-> <<>>,
   mileageValue |-> <<>>, receipt |-> FALSE, totalValue |-> <<"0">>,
   saved |-> NoData]

\* useEffect on [mileage]: mileageValue = (km * MILEAGE_RATE).toFixed(2)
WithMileageValue(f) ==
  [f EXCEPT !.mileageValue =
     toFixed2(OrZero(parseFloat(f.mileage)) * MILEAGE_RATE, Unit * 100)]

\* useEffect on the amounts and mileageValue: the sum, toFixed(2)
WithTotal(f) ==
  [f EXCEPT !.totalValue =
     toFixed2(OrZero(parseFloat(f.amounts["breakfastValue"]))
              + OrZero(parseFloat(f.amounts["lunchValue"]))
              + OrZero(parseFloat(f.amounts["dinnerValue"]))
              + OrZero(parseFloat(f.amounts["transportValue"]))
              + OrZero(parseFloat(f.amounts["parkingValue"]))
              + OrZero(parseFloat(f.mileageValue))
              + OrZero(parseFloat(f.amounts["otherValue"])), Unit)]

\* the forms one onChange handler (or the file reader) and the effects it
\* triggers lead to
FormEdits(f) ==
  {[f EXCEPT !.destination = t] : t \in FieldTexts}
    \cup {[f EXCEPT !.justification = t] : t \in FieldTexts}
    \cup {[f EXCEPT !.receipt = TRUE]}
    \cup {WithTotal(WithMileageValue([f EXCEPT !.mileage = t])) : t \in MileageInputs}
    \cup UNION {{WithTotal([f EXCEPT !.amounts[a] = t]) : t \in AmountInputs(a)} :
                  a \in AmountFields}

\* the browser's validation of the expense form before the submit event
\* fires: destination and justification are required, the amounts have
\* step 0.01 and the mileage the default step 1 (min 0 holds of every text)
BrowserValid(f) ==
  /\ f.destination # <<>>
  /\ f.justification # <<>>
  /\ \A a \in AmountFields :
       f.amounts[a] = <<>> \/ parseFloat(f.amounts[a]) % (Unit \div 100) = 0
  /\ f.mileage = <<>> \/ parseFloat(f.mileage) % Unit = 0

ExpenseFormValidNoReceipt(f) ==
  /\ BrowserValid(f)
  /\ trim(f.destination) # <<>>
  /\ trim(f.justification) # <<>>

\* the submission reaches the writes of handleSubmit: the browser accepts
\* the form and none of the three checks of handleSubmit returns
ExpenseFormValid(f) ==
  /\ BrowserValid(f)
  /\ trim(f.destination) # <<>>
  /\ trim(f.justification) # <<>>
  /\ f.receipt

\* the expenseData handleSubmit builds from the form state
expenseData(f) ==
  [written |-> TRUE, amounts |-> f.amounts,
   mileage |-> IF f.mileage # <<>> THEN parseInt(f.mileage) ELSE 0,
   mileageValue |-> f.mileageValue, totalValue |-> f.totalValue]

\* ---------------------------------------------------------------- actions
TripIds == 1..MaxTripId
ExpenseIds == 1..MaxExpenseId
\* the dates a form field can hold: empty, or a day
Dates == IF scenario = "dates" THEN 0..MaxDate ELSE {NoDate}
\* the names the trip form can hold
TripNames ==
  IF scenario = "forms" THEN {Str(t) : t \in Texts({" ", "a"}, MaxNameLen)}
  ELSE IF scenario = "orphans" THEN {"a"}
  ELSE Names
\* the identity the trip form takes from getCPF(): one identity in the
\* behaviours that are about the expense form
TripCpfs == IF scenario \in {"forms", "orphans"} THEN {"c1"} ELSE CPFs
TripInputs == [cpf : TripCpfs, name : TripNames, startDate : Dates, endDate : Dates]
ExpenseInputs == [tripId : TripIds, note : Names]

\* the scripts of spontaneous storage faults an operation may meet
FaultScripts ==
  IF faulty
  THEN {<<>>} \cup {s \in UNION {[1..n -> BOOLEAN] : n \in 1..MaxFaults} : s[Len(s)]}
  ELSE {<<>>}

Machine(fs) == [db |-> idb, fs |-> fs]

\* the record of a completed operation: its arguments, the outcome o of its
\* first remote request, its result, the error it threw, the number n of
\* local records it deleted, the log of its requests in program order, the
\* number of connections it opened and left open (counted for getCPF and
\* saveCPF), the list of trips it returned (for getTripsByCpf), and
\* whether it repeats the operation completed before it (same operation,
\* same arguments, same result)
Done(op, id, cpf, name, o, ret, err, n, log) ==
  [op |-> op, id |-> id, cpf |-> cpf, name |-> name,
   startDate |-> NoDate, endDate |-> NoDate, o |-> o,
   ret |-> ret, err |-> err, n |-> n, log |-> log, open |-> 0, list |-> {},
   again |-> (/\ last.op = op /\ last.id = id /\ last.cpf = cpf
              /\ last.name = name /\ last.ret = ret)]

NoOp ==
  [op |-> "none", id |-> 0, cpf |-> NoCpf, name |-> "",
   startDate |-> NoDate, endDate |-> NoDate, o |-> "",
   ret |-> 0, err |-> "", n |-> 0, log |-> <<>>, open |-> 0, list |-> {},
   again |-> FALSE]

\* the slots of concurrent updateTrip calls; a call is idle (not made), at
\* "local" (its PUT was answered with outcome o, its local transaction is
\* still to run) or done
Calls == 1..MaxCalls
Idle ==
  [pc |-> "idle", id |-> 0, o |-> "",
   trip |-> [cpf |-> NoCpf, name |-> "", startDate |-> NoDate, endDate |-> NoDate]]
NoCalls == [c \in Calls |-> Idle]

\* no call of verifyAndFixDatabase in flight.  A call is at "fetch" (its
\* first request is sent), at "local" (the request settled) or "stuck" (it
\* awaits something that never happens); o0 is the outcome its first
\* request meets and res what the call does to the database and returns
\* once all its requests have settled
NoVerify ==
  [pc |-> "idle", cpf |-> NoCpf, o0 |-> "",
   res |-> [db |-> AbsentDB, ret |-> 0, log |-> <<>>]]

\* a page whose Router has not run its mount effect yet
NoSession == [mounted |-> FALSE, runs |-> 0, call |-> NoVerify]

Init ==
  /\ idb = AbsentDB
  /\ remote = EmptyRemote
  /\ booted = FALSE
  /\ faulty = FALSE
  /\ scenario = "plain"
  /\ pending = NoCalls
  /\ session = NoSession
  /\ form = BlankForm
  /\ ops = 0
  /\ last = NoOp

InitFaults ==
  /\ idb = AbsentDB
  /\ remote = EmptyRemote
  /\ booted = FALSE
  /\ faulty = TRUE
  /\ scenario = "plain"
  /\ pending = NoCalls
  /\ session = NoSession
  /\ form = BlankForm
  /\ ops = 0
  /\ last = NoOp

\* a version-2 database left with only some of its collections: the
\* upgrade handler catches and logs an exception of createObjectStore, so an
\* upgrade that threw completes with the collections created until then.
\* The collections present hold the records they had.
PartialDBs ==
  {[exists |-> TRUE, version |-> DB_VERSION, stores |-> ss,
    trips |-> t, expenses |-> e, cpf |-> c,
    tripGen |-> IF t = EmptyStore THEN 1 ELSE 2,
    expGen |-> IF e = EmptyStore THEN 1 ELSE 2] :
     ss \in (SUBSET AllStores) \ {AllStores},
     t \in {EmptyStore, [k \in {1} |-> TripRec(1, [cpf |-> "c1", name |-> "a",
                                         startDate |-> NoDate, endDate |-> NoDate])]},
     e \in {EmptyStore, [k \in {1} |-> [id |-> 1, tripId |-> 1, note |-> "a"]]},
     c \in {EmptyStore, [k \in {"user"} |-> CpfRec("c1")]}}

InitPartial ==
  /\ idb \in {d \in PartialDBs :
                /\ TRIPS_STORE \notin d.stores => d.trips = EmptyStore
                /\ EXPENSES_STORE \notin d.stores => d.expenses = EmptyStore
                /\ CPF_STORE \notin d.stores => d.cpf = EmptyStore}
  /\ remote = EmptyRemote
  /\ booted = FALSE
  /\ faulty = TRUE
  /\ scenario = "partial"
  /\ pending = NoCalls
  /\ session = NoSession
  /\ form = BlankForm
  /\ ops = 0
  /\ last = NoOp

\* the trip form filled in with dates
InitDates ==
  /\ idb = AbsentDB
  /\ remote = EmptyRemote
  /\ booted = FALSE
  /\ faulty = FALSE
  /\ scenario = "dates"
  /\ pending = NoCalls
  /\ session = NoSession
  /\ form = BlankForm
  /\ ops = 0
  /\ last = NoOp

\* updateTrip calls made without waiting for one another
InitRace ==
  /\ idb = AbsentDB
  /\ remote = EmptyRemote
  /\ booted = FALSE
  /\ faulty = FALSE
  /\ scenario = "race"
  /\ pending = NoCalls
  /\ session = NoSession
  /\ form = BlankForm
  /\ ops = 0
  /\ last = NoOp

\* a host with IndexedDB or one without it
InitHosts ==
  /\ idb = AbsentDB
  /\ remote = EmptyRemote
  /\ booted = FALSE
  /\ faulty = FALSE
  /\ scenario \in {"hosts", "nostorage"}
  /\ pending = NoCalls
  /\ session = NoSession
  /\ form = BlankForm
  /\ ops = 0
  /\ last = NoOp

\* page sessions: the Router's mount effect and the identification page
InitSession ==
  /\ idb = AbsentDB
  /\ remote = EmptyRemote
  /\ booted = FALSE
  /\ faulty = FALSE
  /\ scenario = "session"
  /\ pending = NoCalls
  /\ session = NoSession
  /\ form = BlankForm
  /\ ops = 0
  /\ last = NoOp

\* the trip form and the expense form filled in field by field
InitForms ==
  /\ idb = AbsentDB
  /\ remote = EmptyRemote
  /\ booted = FALSE
  /\ faulty = FALSE
  /\ scenario = "forms"
  /\ pending = NoCalls
  /\ session = NoSession
  /\ form = BlankForm
  /\ ops = 0
  /\ last = NoOp

\* the trip list loaded, trips saved and deleted with the remote reachable
\* or not
InitList ==
  /\ idb = AbsentDB
  /\ remote = EmptyRemote
  /\ booted = FALSE
  /\ faulty = FALSE
  /\ scenario = "list"
  /\ pending = NoCalls
  /\ session = NoSession
  /\ form = BlankForm
  /\ ops = 0
  /\ last = NoOp

\* the expense form of one trip open while trips are deleted and the full
\* pass runs elsewhere (the trip list in another tab, another page load)
InitOrphans ==
  /\ idb = AbsentDB
  /\ remote = EmptyRemote
  /\ booted = FALSE
  /\ faulty = FALSE
  /\ scenario = "orphans"
  /\ pending = NoCalls
  /\ session = NoSession
  /\ form = BlankForm
  /\ ops = 0
  /\ last = NoOp

\* calls of verifyAndFixDatabase followed from the call to the return,
\* storage requests failing spontaneously
InitVerify ==
  /\ idb = AbsentDB
  /\ remote = EmptyRemote
  /\ booted = FALSE
  /\ faulty = TRUE
  /\ scenario = "verify"
  /\ pending = NoCalls
  /\ session = NoSession
  /\ form = BlankForm
  /\ ops = 0
  /\ last = NoOp

\* every operation but the boot counts against the budget of the behaviour
OpBudget ==
  IF scenario = "forms" THEN MaxFormOps
  ELSE IF scenario = "verify" THEN MaxVerifyOps
  ELSE IF scenario = "orphans" THEN MaxOrphanOps
  ELSE IF scenario = "list" THEN MaxListOps
  ELSE IF scenario = "session" THEN MaxSessionOps
  ELSE IF scenario \in {"hosts", "nostorage"} THEN MaxHostOps
  ELSE IF scenario = "partial" THEN MaxPartialOps
  ELSE IF scenario = "race" THEN MaxRaceOps
  ELSE IF scenario = "dates" THEN MaxDateOps
  ELSE IF faulty THEN MaxFaultOps
  ELSE MaxOps

Tick == ops < OpBudget /\ ops' = ops + 1 /\ UNCHANGED <<faulty, scenario, pending>>

Step == Tick /\ UNCHANGED <<session, form>>

\* main.tsx on every page load: initializeDB().then(render).  The first
\* load of a behaviour is free, a reload counts against the budget.
Boot ==
  /\ booted => ops < OpBudget
  /\ ops' = IF booted THEN ops + 1 ELSE ops
  /\ UNCHANGED <<faulty, scenario>>
  /\ pending' = [c \in Calls |-> IF pending[c].pc = "done" THEN pending[c] ELSE Idle]
  /\ session' = NoSession
  /\ form' = [BlankForm EXCEPT !.saved = form.saved]
  /\ \E fs \in FaultScripts :
       LET i == initializeDB(Machine(fs))
       IN /\ idb' = i.db
          /\ booted' = i.ok
          /\ last' = Done("initializeDB", 0, NoCpf, "", "", IF i.ok THEN 1 ELSE 0,
                          IF i.ok THEN ""
                          ELSE IF i.log = <<"unavailable">> THEN "Unavailable"
                          ELSE "Storage", 0, i.log)
  /\ UNCHANGED remote

SaveCPF ==
  /\ booted
  /\ Step
  /\ \E fs \in FaultScripts, cpf \in CPFs :
       LET r == saveCPF(Machine(fs), cpf)
       IN /\ idb' = r.db
          /\ last' = [Done("saveCPF", 0, cpf, "", "", 0,
                           IF r.ok THEN "" ELSE "Storage", 0, r.log)
                        EXCEPT !.open = r.open]
  /\ UNCHANGED <<remote, booted>>

GetCPF ==
  /\ booted
  /\ Step
  /\ \E fs \in FaultScripts :
       LET r == getCPF(Machine(fs))
       IN /\ idb' = r.db
          /\ last' = [Done("getCPF", 0, r.cpf, "", "", 0, "", 0, r.log)
                        EXCEPT !.open = r.open]
  /\ UNCHANGED <<remote, booted>>

\* the text a name string is written with
TextOf(s) == CHOOSE t \in Texts({" ", "a", "b"}, MaxNameLen) : Str(t) = s

\* the trip form accepting any dates
FormValidNoRange(trip) == trip.name # ""

\* the browser's validation of the trip form before the submit event fires
\* (the name is required, and the end date input has min = the start date)
\* and the check of handleSubmit (the trimmed name is not empty)
FormValid(trip) ==
  /\ trip.name # ""
  /\ trim(TextOf(trip.name)) # <<>>
  /\ (trip.startDate # NoDate /\ trip.endDate # NoDate) =>
       trip.endDate >= trip.startDate

WithDates(l, trip) ==
  [l EXCEPT !.startDate = trip.startDate, !.endDate = trip.endDate]

\* a submission the browser refuses (handleSubmit does not run) or the name
\* check of handleSubmit returns from
Rejected(id, trip) ==
  /\ UNCHANGED <<idb, remote>>
  /\ last' = WithDates(Done("tripForm", id, trip.cpf, trip.name, "", 0,
                             "Invalid", 0, <<>>), trip)

\* the trip form submitted for a new trip: saveTrip
SaveTrip ==
  /\ booted
  /\ Step
  /\ \E trip \in TripInputs :
       IF ~FormValid(trip) THEN Rejected(0, trip)
       ELSE \E fs \in FaultScripts, o \in Outcomes :
         LET r == saveTrip(Machine(fs), remote, trip, o)
         IN /\ o = "ok" => remote.nextTrip <= MaxTripId
            /\ o # "ok" => idb.tripGen <= MaxTripId
            /\ idb' = r.db
            /\ remote' = r.rem
            /\ last' = WithDates(Done("saveTrip", 0, trip.cpf, trip.name, o,
                                      r.ret, r.err, 0, r.log), trip)
  /\ UNCHANGED booted

UpdateTrip ==
  /\ booted
  /\ Step
  /\ \E id \in TripIds, trip \in TripInputs :
       IF ~FormValid(trip) THEN Rejected(id, trip)
       ELSE \E fs \in FaultScripts, o \in TripOutcomes(remote, id) :
         LET r == updateTrip(Machine(fs), remote, id, trip, o)
         IN /\ idb' = r.db
            /\ remote' = r.rem
            /\ last' = WithDates(Done("updateTrip", id, trip.cpf, trip.name, o,
                                      r.ret, r.err, 0, r.log), trip)
  /\ UNCHANGED booted

DeleteTrip ==
  /\ booted
  /\ Step
  /\ \E fs \in FaultScripts, id \in TripIds :
       \E o \in TripOutcomes(remote, id) :
         LET r == deleteTrip(Machine(fs), remote, id, o)
         IN /\ idb' = r.db
            /\ remote' = r.rem
            /\ last' = Done("deleteTrip", id, NoCpf, "", o, r.ret, r.err,
                            Cardinality(DOMAIN idb.expenses \ DOMAIN r.db.expenses), r.log)
  /\ UNCHANGED booted

\* handleSubmit of the expense form, create path: saveExpense, then
\* syncExpenseToServer whose failure only changes the toast
ExpenseFormCreate ==
  /\ booted
  /\ Step
  /\ \E fs \in FaultScripts, exp \in ExpenseInputs :
       \E o \in ExpenseCreateOutcomes(remote, exp.tripId) :
         LET r == saveExpense(Machine(fs), exp)
         IN /\ idb.expGen <= MaxExpenseId
            /\ o = "ok" => remote.nextExp <= MaxExpenseId
            /\ idb' = r.db
            /\ remote' = IF r.ok THEN syncExpenseToServer(remote, exp, o) ELSE remote
            /\ last' = Done("saveExpense", exp.tripId, NoCpf, exp.note,
                            IF r.ok THEN o ELSE "", r.ret,
                            IF r.ok THEN "" ELSE "Storage", 0,
                            IF r.ok THEN <<"local.add", "remote." \o o>>
                            ELSE <<"local.fail">>)
  /\ UNCHANGED booted

UpdateExpense ==
  /\ booted
  /\ Step
  /\ \E fs \in FaultScripts, id \in ExpenseIds, exp \in ExpenseInputs :
       LET r == updateExpense(Machine(fs), id, exp)
       IN /\ idb' = r.db
          /\ last' = Done("updateExpense", id, NoCpf, exp.note, "", 0, r.err, 0,
                          IF r.err = "" THEN <<"local.put">> ELSE <<>>)
  /\ UNCHANGED <<remote, booted>>

ConfirmDeleteExpense ==
  /\ booted
  /\ Step
  /\ \E fs \in FaultScripts, id \in ExpenseIds :
       \E o \in ExpenseOutcomes(remote, id) :
         LET r == confirmDeleteExpense(Machine(fs), remote, id, o)
         IN /\ idb' = r.db
            /\ remote' = r.rem
            /\ last' = Done("deleteExpense", id, NoCpf, "", o, r.ret, r.err,
                            Cardinality(DOMAIN idb.expenses \ DOMAIN r.db.expenses), r.log)
  /\ UNCHANGED booted

SyncTripsFromServer ==
  /\ booted
  /\ Step
  /\ \E fs \in FaultScripts, cpf \in CPFs, o \in Outcomes :
       LET r == syncTripsFromServer(Machine(fs), remote, cpf, o)
       IN /\ idb' = r.db
          /\ last' = Done("syncTripsFromServer", 0, cpf, "", o,
                          IF r.ret THEN 1 ELSE 0, "", 0, r.log)
  /\ UNCHANGED <<remote, booted>>

VerifyAndFixDatabase ==
  /\ booted
  /\ Step
  /\ \E fs \in FaultScripts, cpf \in CPFs, o0 \in Outcomes, os \in Outcomes :
       \E oe \in [TripIds -> IF o0 = "ok" /\ syncGetDB(clearLocalDatabase(Machine(fs))).ok
                             THEN Outcomes ELSE {"ok"}] :
         LET r == verifyAndFixDatabase(Machine(fs), remote, cpf, o0, oe, os)
         IN /\ (o0 # "ok" \/ "fallback" \notin Range(r.log)) => os = "ok"
            /\ idb' = r.db
            /\ last' = Done("verifyAndFixDatabase", 0, cpf, "", o0, r.ret, "", 0, r.log)
  /\ UNCHANGED <<remote, booted>>

\* loadTrips of the trip list: getTripsByCpf(cpf)
GetTripsByCpf ==
  /\ booted
  /\ Step
  /\ \E fs \in FaultScripts, cpf \in CPFs, o \in Outcomes :
       LET r == getTripsByCpf(Machine(fs), remote, cpf, o)
       IN /\ idb' = r.db
          /\ last' = [Done("getTripsByCpf", 0, cpf, "", o, Cardinality(r.list),
                           "", 0, r.log)
                        EXCEPT !.list = r.list]
  /\ UNCHANGED <<remote, booted>>

\* updateTrip(id, trip) up to its first await: the PUT reaches the server,
\* which answers with outcome o
UpdateTripRemote(c) ==
  /\ booted
  /\ pending[c].pc = "idle"
  /\ \E id \in TripIds, trip \in {t \in TripInputs : FormValid(t)} :
       \E o \in TripOutcomes(remote, id) :
         /\ remote' = updateTrip(Machine(<<>>), remote, id, trip, o).rem
         /\ pending' = [pending EXCEPT ![c] =
                          [pc |-> "local", id |-> id, o |-> o, trip |-> trip]]
  /\ UNCHANGED <<idb, booted, faulty, scenario, ops, session, form, last>>

\* the rest of the call after the response: getDB and the readwrite
\* transaction with get(id) and put, on the success or the fallback path
UpdateTripLocal(c) ==
  /\ booted
  /\ pending[c].pc = "local"
  /\ LET p == pending[c]
          r == updateTrip(Machine(<<>>), remote, p.id, p.trip, p.o)
     IN /\ idb' = r.db
        /\ last' = WithDates(Done("updateTrip", p.id, p.trip.cpf, p.trip.name, p.o,
                                  r.ret, r.err, 0, r.log), p.trip)
        /\ pending' = [pending EXCEPT ![c].pc = "done"]
  /\ UNCHANGED <<remote, booted, faulty, scenario, ops, session, form>>

Next ==
  \/ Boot
  \/ SaveCPF
  \/ GetCPF
  \/ SaveTrip
  \/ UpdateTrip
  \/ DeleteTrip
  \/ ExpenseFormCreate
  \/ UpdateExpense
  \/ ConfirmDeleteExpense
  \/ SyncTripsFromServer
  \/ VerifyAndFixDatabase

Spec == Init /\ [][Next]_vars
SpecFaults == InitFaults /\ [][Next]_vars

SpecPartial == InitPartial /\ [][Next]_vars

SpecHosts == InitHosts /\ [][Next]_vars

SpecDates == InitDates /\ [][Next]_vars

\* Router's mount effect, checkAuth, continued after getCPF() returned g:
\* with a stored CPF it awaits verifyAndFixDatabase(storedCpf), then the
\* routes are rendered
checkAuth(g) ==
  IF g.cpf = NoCpf
  THEN /\ idb' = g.db
       /\ session' = [session EXCEPT !.mounted = TRUE]
       /\ last' = [Done("getCPF", 0, g.cpf, "", "", 0, "", 0, g.log)
                     EXCEPT !.open = g.open]
  ELSE \E o0 \in Outcomes, os \in Outcomes :
         \E oe \in [TripIds -> IF o0 = "ok" /\ syncGetDB(clearLocalDatabase(g)).ok
                               THEN Outcomes ELSE {"ok"}] :
           LET r == verifyAndFixDatabase(g, remote, g.cpf, o0, oe, os)
           IN /\ (o0 # "ok" \/ "fallback" \notin Range(r.log)) => os = "ok"
              /\ idb' = r.db
              /\ session' = [session EXCEPT !.mounted = TRUE, !.runs = @ + 1]
              /\ last' = Done("verifyAndFixDatabase", 0, g.cpf, "", o0, r.ret, "",
                              0, g.log \o r.log)

\* the Router component mounts, once per page load, after main.tsx rendered
RouterMount ==
  /\ booted
  /\ ~session.mounted
  /\ Tick
  /\ \E fs \in FaultScripts : checkAuth(getCPF(Machine(fs)))
  /\ UNCHANGED <<remote, booted, form>>

\* the identification page submitted with a well-formed CPF: saveCPF, then
\* POST /api/auth/cpf answered with outcome o, then navigate("/dashboard")
\* inside the running page
handleLogin(r, cpf, o) ==
  /\ idb' = r.db
  /\ last' = [Done("handleLogin", 0, cpf, "", IF r.ok THEN o ELSE "",
                   IF r.ok /\ o = "ok" THEN 1 ELSE 0,
                   IF ~r.ok THEN "Storage" ELSE IF o = "ok" THEN "" ELSE "Remote",
                   0, r.log)
                EXCEPT !.open = r.open]

HandleLogin ==
  /\ booted
  /\ session.mounted
  /\ Step
  /\ \E fs \in FaultScripts, cpf \in CPFs, o \in Outcomes :
       handleLogin(saveCPF(Machine(fs), cpf), cpf, o)
  /\ UNCHANGED <<remote, booted>>

NextSession ==
  \/ Boot
  \/ RouterMount
  \/ HandleLogin
  \/ session.mounted /\ SaveTrip
  \/ session.mounted /\ DeleteTrip

SpecSession == InitSession /\ [][NextSession]_vars

\* the expense list, which is shown only for a trip getTrip(tripId) finds in
\* the local store, opens the ExpenseModal for a new expense of that trip:
\* the component mounts and its effects run (not counted against the
\* budget: a closed modal opens once before the next submission)
OpenExpenseModal ==
  /\ booted
  /\ ~form.open
  /\ UNCHANGED <<faulty, scenario, pending, ops>>
  /\ \E tripId \in TripIds \cap DOMAIN idb.trips :
       form' = WithTotal(WithMileageValue(
                 [BlankForm EXCEPT !.open = TRUE, !.tripId = tripId,
                                   !.saved = form.saved]))
  /\ UNCHANGED <<idb, remote, booted, session, last>>

\* the user changes one field of the open form
ChangeField ==
  /\ form.open
  /\ Tick
  /\ \E g \in FormEdits(form) : g # form /\ form' = g
  /\ UNCHANGED <<idb, remote, booted, session, last>>

\* the submit button of the expense form, create path: a submission that is
\* refused writes nothing; otherwise saveExpense(expenseData), then
\* syncExpenseToServer, then the modal closes
SubmitExpenseForm ==
  /\ form.open
  /\ Tick
  /\ IF ~ExpenseFormValid(form)
     THEN /\ UNCHANGED <<idb, remote, form>>
          /\ last' = Done("expenseForm", form.tripId, NoCpf, Str(form.destination),
                          "", 0, "Invalid", 0, <<>>)
     ELSE \E fs \in FaultScripts, o \in ExpenseCreateOutcomes(remote, form.tripId) :
            LET r == saveExpense(Machine(fs),
                                 [tripId |-> form.tripId, note |-> Str(form.destination)])
            IN /\ idb.expGen <= MaxExpenseId
               /\ o = "ok" => remote.nextExp <= MaxExpenseId
               /\ idb' = r.db
               /\ remote' = IF r.ok
                            THEN syncExpenseToServer(remote,
                                   [tripId |-> form.tripId,
                                    note |-> Str(form.destination)], o)
                            ELSE remote
               /\ form' = IF r.ok THEN [BlankForm EXCEPT !.saved = expenseData(form)]
                          ELSE form
               /\ last' = Done("saveExpense", form.tripId, NoCpf, Str(form.destination),
                               IF r.ok THEN o ELSE "", r.ret,
                               IF r.ok THEN "" ELSE "Storage", 0,
                               IF r.ok THEN <<"local.add", "remote." \o o>>
                               ELSE <<"local.fail">>)
  /\ UNCHANGED <<booted, session>>

\* the trip form is on the trip list, the expense form on the expense list
\* of one trip: the trip form is submitted while no expense form is open
NextForms ==
  \/ Boot
  \/ ~form.open /\ SaveTrip
  \/ OpenExpenseModal
  \/ ChangeField
  \/ SubmitExpenseForm

SpecForms == InitForms /\ [][NextForms]_vars

\* the trip list page: trips are listed, created and deleted, and the
\* reconciliation passes run; no trip is edited
NextList ==
  \/ Boot
  \/ SaveTrip
  \/ DeleteTrip
  \/ GetTripsByCpf
  \/ SyncTripsFromServer
  \/ VerifyAndFixDatabase

SpecList == InitList /\ [][NextList]_vars

\* verifyAndFixDatabase(cpf) is called: its first request is sent.  The
\* page takes no input while the call runs, so what the call will do is
\* fixed by the stores as they are now and by the outcomes its requests
\* meet: o0 for the first fetch, oe for the expense fetches, os for the
\* fetch of the fallback pass, fs for the storage requests
CallVerify ==
  /\ booted
  /\ session.call.pc = "idle"
  /\ Tick
  /\ \E fs \in FaultScripts, cpf \in CPFs, o0 \in Outcomes, os \in Outcomes :
       \E oe \in [TripIds -> IF o0 = "ok" /\ syncGetDB(clearLocalDatabase(Machine(fs))).ok
                             THEN Outcomes ELSE {"ok"}] :
         LET Called(r) ==
               /\ (o0 # "ok" \/ "fallback" \notin Range(r.log)) => os = "ok"
               /\ session' = [session EXCEPT !.call =
                                [pc |-> "fetch", cpf |-> cpf, o0 |-> o0,
                                 res |-> [db |-> r.db, ret |-> r.ret, log |-> r.log]]]
         IN Called(verifyAndFixDatabase(Machine(fs), remote, cpf, o0, oe, os))
  /\ UNCHANGED <<idb, remote, booted, form, last>>

\* the first request settles: success status, non-success status or exception
SettleFetch ==
  /\ session.call.pc = "fetch"
  /\ session' = [session EXCEPT !.call.pc = "local"]
  /\ UNCHANGED <<idb, remote, booted, faulty, scenario, pending, ops, form, last>>

\* the rest of the call, every later request settling and every storage
\* request firing success or error: the call returns, or it is left
\* awaiting an event that never fires
ReturnVerify ==
  /\ session.call.pc = "local"
  /\ idb' = session.call.res.db
  /\ session' = [session EXCEPT !.call =
                   IF session.call.res.ret = -1 THEN [@ EXCEPT !.pc = "stuck"]
                   ELSE NoVerify]
  /\ last' = Done("verifyAndFixDatabase", 0, session.call.cpf, "", session.call.o0,
                  session.call.res.ret, "", 0, session.call.res.log)
  /\ UNCHANGED <<remote, booted, faulty, scenario, pending, ops, form>>

\* while the Router awaits the call it shows the spinner: the page takes no
\* input until the call returned
NextVerify ==
  \/ session.call.pc = "idle" /\ Boot
  \/ session.call.pc = "idle" /\ SaveTrip
  \/ CallVerify
  \/ SettleFetch
  \/ ReturnVerify

\* every remote request eventually settles and every storage request
\* eventually fires success or error
SpecVerify ==
  /\ InitVerify
  /\ [][NextVerify]_vars
  /\ WF_vars(SettleFetch)
  /\ WF_vars(ReturnVerify)

\* the expense form of a stored trip, and what another tab of the
\* application does to the same database meanwhile: deleteTrip from its
\* trip list, the full pass of its Router
NextOrphans ==
  \/ Boot
  \/ ~form.open /\ SaveTrip
  \/ OpenExpenseModal
  \/ ChangeField
  \/ SubmitExpenseForm
  \/ DeleteTrip
  \/ VerifyAndFixDatabase

SpecOrphans == InitOrphans /\ [][NextOrphans]_vars

NextRace ==
  \/ Boot
  \/ SaveTrip
  \/ \E c \in Calls : UpdateTripRemote(c)
  \/ \E c \in Calls : UpdateTripLocal(c)

SpecRace == InitRace /\ [][NextRace]_vars

\* ----------------------------------------------------------------- claims
Submitted(op, key) == TripRec(key, op)

\* C1: a saveTrip whose remote create failed (non-success status or network
\* exception) completes without error, stores the submitted trip under a
\* fresh key supplied by the store's key generator, returns that key, and
\* getTrip of that key yields the submitted fields.
C1_FallbackOnFailure ==
  [][(last'.op = "saveTrip" /\ last'.o # "ok") =>
       /\ last'.err = ""
       /\ last'.ret = idb.tripGen
       /\ last'.ret \notin DOMAIN idb.trips
       /\ getTrip(idb', last'.ret) = Submitted(last', last'.ret)
       /\ \A k \in DOMAIN idb.trips : getTrip(idb', k) = idb.trips[k]]_vars

\* a fallback save after a network exception whose trip is retrievable
C1_Witness ==
  /\ last.op = "saveTrip"
  /\ last.o = "net"
  /\ last.ret >= 1
  /\ getTrip(idb, last.ret) = Submitted(last, last.ret)

\* C2: a saveTrip whose remote create succeeded returns the remote
\* identifier, getTrip of it yields the submitted trip, and the local store
\* gained no record under any other key.
C2_RemoteIdAdoption ==
  [][(last'.op = "saveTrip" /\ last'.o = "ok") =>
       /\ last'.ret = remote.nextTrip
       /\ last'.ret \in DOMAIN remote'.trips
       /\ getTrip(idb', last'.ret) = Submitted(last', last'.ret)
       /\ DOMAIN idb'.trips \ DOMAIN idb.trips \subseteq {last'.ret}]_vars

LocalExpensesOf(db, tripId) ==
  {e \in DOMAIN db.expenses : db.expenses[e].tripId = tripId}

AsSet(store) == {store[k] : k \in DOMAIN store}

\* C4: when verifyAndFixDatabase(cpf) returns true the local trips are
\* exactly the remote trips of cpf and the local expenses exactly the remote
\* expenses of those trips (the remote is not changed by the pass).
C4_FullPassMirrorsRemote ==
  (last.op = "verifyAndFixDatabase" /\ last.ret = 1) =>
    /\ AsSet(idb.trips) = RemoteTripsByCpf(remote, last.cpf)
    /\ AsSet(idb.expenses) =
         UNION {RemoteExpensesByTrip(remote, t.id) : t \in RemoteTripsByCpf(remote, last.cpf)}

\* C5: a verifyAndFixDatabase or syncTripsFromServer pass in which a remote
\* request failed at the network level returns false.
C5_NetworkFailureReturnsFalse ==
  (/\ last.op \in {"verifyAndFixDatabase", "syncTripsFromServer"}
   /\ "remote.net" \in Range(last.log)) => last.ret = 0

\* C6: after deleteTrip(id), whatever the remote outcome, no local expense
\* has tripId id and no local trip has key id.
C6_CascadeDelete ==
  last.op = "deleteTrip" =>
    /\ last.err = ""
    /\ last.id \notin DOMAIN idb.trips
    /\ LocalExpensesOf(idb, last.id) = {}

\* a deleteTrip whose remote delete failed and whose cascade removed expenses
C6_Witness ==
  /\ last.op = "deleteTrip"
  /\ last.o # "ok"
  /\ last.n >= 1
  /\ LocalExpensesOf(idb, last.id) = {}

OpensStore(op) == op \in {"initializeDB", "getCPF", "saveCPF"}

KeepsLocalData ==
  /\ idb'.trips = idb.trips
  /\ idb'.expenses = idb.expenses
  /\ idb.cpf # EmptyStore => idb'.cpf # EmptyStore

FullStrategyFailures ==
  {"wipe.fail", "open.fail", "trip.fail", "expenses.fail", "remote.net", "remote.status"}

FailedStep(log) ==
  \E i \in DOMAIN log :
    /\ log[i] \in FullStrategyFailures
    /\ \A j \in 1..i : log[j] # "fallback"

\* C8: when a step of the full strategy fails the light strategy is run as
\* recovery, and verifyAndFixDatabase returns true only if the full strategy
\* ran without a failed step or the fallback light pass returned true.
C8_FallbackAndOutcome ==
  last.op = "verifyAndFixDatabase" /\ last.o = "ok" =>
    /\ FailedStep(last.log) => "fallback" \in Range(last.log)
    /\ last.ret = 1 => (~FailedStep(last.log) \/ "sync.true" \in Range(last.log))

\* C9: updateTrip and updateExpense never add a key to the local store, and
\* when the target is absent at the local fallback update the call throws
\* the not-found error and leaves the local store as it was.
C9_NoCreateOnUpdate ==
  [][last'.op \in {"updateTrip", "updateExpense"} =>
       /\ DOMAIN idb'.trips = DOMAIN idb.trips
       /\ DOMAIN idb'.expenses = DOMAIN idb.expenses
       /\ (last'.op = "updateTrip" /\ last'.o # "ok" /\ last'.id \notin DOMAIN idb.trips)
            => (last'.err = "NotFound" /\ idb' = idb)
       /\ (last'.op = "updateExpense" /\ last'.id \notin DOMAIN idb.expenses)
            => (last'.err = "NotFound" /\ idb' = idb)]_vars

\* an updateTrip whose remote update failed and whose target is not stored
C9_Witness ==
  /\ last.op = "updateTrip"
  /\ last.o # "ok"
  /\ last.err = "NotFound"
  /\ last.id \notin DOMAIN idb.trips

\* C10: deleteTrip and the expense deletion of the expense list issue the
\* remote delete and then the local delete, whatever the remote outcome; the
\* local delete succeeds also for a key the local store does not hold.
C10_RemoteThenLocalDelete ==
  /\ last.op = "deleteTrip" =>
       /\ last.log = <<"remote." \o last.o, "local.delete">>
       /\ last.err = ""
       /\ last.id \notin DOMAIN idb.trips
       /\ last.o = "ok" => last.id \notin DOMAIN remote.trips
  /\ last.op = "deleteExpense" =>
       /\ last.log = <<"remote." \o last.o, "local.delete">>
       /\ last.err = ""
       /\ last.id \notin DOMAIN idb.expenses
       /\ last.o = "ok" => last.id \notin DOMAIN remote.expenses

\* an expense deletion of an absent key after a remote network failure
C10_Witness ==
  /\ last.op = "deleteExpense"
  /\ last.o = "net"
  /\ last.n = 0
  /\ last.err = ""

\* C13: the remote trip set grows only by a saveTrip whose create request
\* succeeded, and only by the trip that call submitted; no other operation,
\* with or without connectivity, sends a trip held only locally.
C13_NoAutomaticRetry ==
  [][DOMAIN remote'.trips \ DOMAIN remote.trips # {} =>
       /\ last'.op = "saveTrip"
       /\ last'.o = "ok"
       /\ DOMAIN remote'.trips \ DOMAIN remote.trips = {last'.ret}
       /\ remote'.trips[last'.ret] = Submitted(last', last'.ret)]_vars

\* a reconciliation pass that reached the server while the local store holds
\* a trip the server never received
C13_Witness ==
  /\ last.op = "syncTripsFromServer"
  /\ last.o = "ok"
  /\ \E k \in DOMAIN idb.trips : idb.trips[k] \notin AsSet(remote.trips)
  /\ \A k \in DOMAIN remote.trips : k \notin DOMAIN idb.trips

\* C14: a verifyAndFixDatabase(cpf) that returns true right after a
\* verifyAndFixDatabase(cpf) that returned true (the remote is not changed in
\* between) leaves the local trips and expenses exactly as the first run
\* left them.
C14_FullPassIdempotent ==
  [][(/\ last.op = "verifyAndFixDatabase" /\ last.ret = 1
      /\ last'.op = "verifyAndFixDatabase" /\ last'.ret = 1
      /\ last'.cpf = last.cpf
      /\ remote' = remote) =>
       /\ idb'.trips = idb.trips
       /\ idb'.expenses = idb.expenses]_vars

\* a second run in a row for a cpf the remote holds trips of, both true
C14_Witness ==
  /\ last.op = "verifyAndFixDatabase"
  /\ last.again
  /\ last.ret = 1
  /\ RemoteTripsByCpf(remote, last.cpf) # {}

LocalStoreOps ==
  {"initializeDB", "getCPF", "saveCPF", "saveTrip", "updateTrip", "deleteTrip",
   "saveExpense", "updateExpense", "deleteExpense"}

\* the log entries of a failed open, delete-and-recreate, repair or request
StorageFailures == {"open.fail", "wipe.fail", "repair.fail", "local.fail"}

\* C19: a local-store operation that met a storage error (a failed open,
\* request or transaction) ends with that error thrown to its caller, not
\* with a normal result, and without having retried on its own.
C19_StorageErrorsSurface ==
  (last.op \in LocalStoreOps /\ Range(last.log) \cap StorageFailures # {}) =>
    last.err # ""

\* C12: when deleteTrip(id) has returned without an error the local
\* transaction is committed: the trip and every expense of it are gone from
\* the local store.
C12_CascadeCompleteOnReturn ==
  (last.op = "deleteTrip" /\ last.err = "") =>
    /\ last.id \notin DOMAIN idb.trips
    /\ LocalExpensesOf(idb, last.id) = {}

\* the toast title the trip form shows after saveTrip or updateTrip: the
\* success toast whenever the call resolved, the error toast when it threw
TripFormToast(l) ==
  IF l.err # "" THEN "Erro ao salvar"
  ELSE IF l.op = "updateTrip" THEN "Viagem atualizada"
  ELSE "Viagem criada"

\* the toast title the expense form shows after saveExpense and
\* syncExpenseToServer, which returns false for a failure of either kind
ExpenseFormToast(l) ==
  IF l.err # "" THEN "Erro ao salvar"
  ELSE IF l.o = "ok" THEN "Despesa criada"
  ELSE "Despesa criada localmente"

Toast(l) ==
  IF l.op \in {"saveTrip", "updateTrip"} THEN TripFormToast(l)
  ELSE ExpenseFormToast(l)

\* the toasts that tell the user the record did not reach the server
NotSyncedToasts == {"Despesa criada localmente"}

\* C18: after a trip or expense write that succeeded locally while its
\* remote request failed, the user is shown a toast that reports success of
\* the write and tells that the record is not synced to the server.
C18_DegradedSyncSignalled ==
  (/\ last.op \in {"saveTrip", "updateTrip", "saveExpense"}
   /\ last.err = ""
   /\ last.o \in {"status", "net"}) => Toast(last) \in NotSyncedToasts

\* C16: an open that found collections missing and repaired the structure
\* leaves all three collections present, and every collection that existed
\* before holds exactly the records it held (a created one is empty).
C16_RepairIsAdditive ==
  [][(OpensStore(last'.op) /\ "repair.ok" \in Range(last'.log)) =>
       /\ idb'.stores = AllStores
       /\ idb.stores # AllStores
       /\ idb'.trips = idb.trips
       /\ idb'.expenses = idb.expenses
       /\ idb'.cpf = idb.cpf]_vars

\* a page load that repaired a structure whose trips collection holds a trip
C16_Witness ==
  /\ last.op = "initializeDB"
  /\ last.log = <<"open.ok", "repair.ok">>
  /\ idb.version = DB_VERSION + 1
  /\ DOMAIN idb.trips # {}

\* C17: when the additive repair fails, opening the store falls back to
\* deleting and recreating the database, and an open that reset the local
\* history this way does not end like a normal successful open.
C17_ResetIsSurfaced ==
  (last.op = "initializeDB" /\ "repair.fail" \in Range(last.log)) =>
    /\ Range(last.log) \cap {"wipe.ok", "wipe.fail"} # {}
    /\ "wipe.ok" \in Range(last.log) => ~(last.ret = 1 /\ last.err = "")

Reversed(t) ==
  t.startDate # NoDate /\ t.endDate # NoDate /\ t.endDate < t.startDate

C30_FailedFetchAborts ==
  [][(last'.op = "verifyAndFixDatabase" /\ last'.o \in {"status", "net"}) =>
       /\ idb'.trips = idb.trips
       /\ idb'.expenses = idb.expenses
       /\ idb'.cpf = idb.cpf]_vars

\* C29: the cpf store never holds more than one record; a saveCPF that
\* succeeds leaves exactly the record of its value, and one that fails adds
\* or changes no record, so the record present is always that of the most
\* recent successful saveCPF.
C29_SingleIdentityRecord ==
  /\ [](Cardinality(DOMAIN idb.cpf) <= 1)
  /\ [][last'.op = "saveCPF" =>
          IF last'.err = ""
          THEN AsSet(idb'.cpf) = {CpfRec(last'.cpf)}
          ELSE AsSet(idb'.cpf) \subseteq AsSet(idb.cpf)]_vars

\* a successful saveCPF replacing the record of another value, which a
\* following getCPF reads back
C29_Witness ==
  /\ last.op = "getCPF"
  /\ last.cpf = "c2"
  /\ AsSet(idb.cpf) = {CpfRec("c2")}
  /\ idb.cpf # EmptyStore

\* C26: on a host without IndexedDB every initializeDB is rejected with the
\* unavailability error at once, with no open, repair or recreation
\* attempted and nothing created, and deleteAndRecreateDB resolves false
\* leaving nothing behind.
C26_NoStorageFailsFast ==
  /\ [](~HostHasIndexedDB =>
          /\ idb = AbsentDB
          /\ ~booted
          /\ ~deleteAndRecreateDB(Machine(<<>>)).ok
          /\ deleteAndRecreateDB(Machine(<<>>)).db = idb)
  /\ [][(~HostHasIndexedDB /\ last'.op = "initializeDB") =>
          /\ last'.err = "Unavailable"
          /\ last'.log = <<"unavailable">>
          /\ idb' = idb]_vars

\* a page load on a host without IndexedDB
C26_Witness ==
  /\ ~HostHasIndexedDB
  /\ last.op = "initializeDB"
  /\ last.err = "Unavailable"

\* the runs of initializeDB that the state machine Unopened -> Opening ->
\* Ready, Ready -> Recovering -> Ready, Opening -> Failed describes
OpenedReady(l) == l.ret = 1 /\ l.log = <<"open.ok">>
RecoveredReady(l) == l.ret = 1 /\ l.log = <<"open.ok", "repair.ok">>
FailedNoStorage(l) == l.ret = 0 /\ l.log = <<"unavailable">> /\ ~HostHasIndexedDB

C24_ConnectionsClosed ==
  last.op \in {"getCPF", "saveCPF"} => last.open = 0

\* C25: a page session runs verifyAndFixDatabase at most once, and once the
\* Router has mounted, a session whose store holds the identity (found at
\* startup or saved through the identification page) has run it.
C25_FullPassOncePerSession ==
  /\ session.runs <= 1
  /\ (session.mounted /\ idb.cpf # EmptyStore) => session.runs = 1

\* the records of `after` are those of `before`, except possibly under key
\* k, and no record appeared under another key
OnlyKeyTouched(before, after, k) ==
  /\ DOMAIN after \subseteq DOMAIN before \cup {k}
  /\ \A j \in DOMAIN before \ {k} : j \in DOMAIN after /\ after[j] = before[j]

\* C22: every trip record, local or remote, is stored under its own id;
\* updateTrip(id) and deleteTrip(id) touch, in the local store and at the
\* remote, the record under key id and no other, updateTrip keeps the record
\* under that key, and a light reconciliation pass keeps every local trip
\* under its key, adding records only under the ids the remote assigned.
C22_MutationsKeepIdentifier ==
  /\ [](/\ \A k \in DOMAIN idb.trips : idb.trips[k].id = k
        /\ \A k \in DOMAIN remote.trips : remote.trips[k].id = k)
  /\ [][/\ last'.op \in {"updateTrip", "deleteTrip"} =>
             /\ OnlyKeyTouched(idb.trips, idb'.trips, last'.id)
             /\ OnlyKeyTouched(remote.trips, remote'.trips, last'.id)
        /\ last'.op = "updateTrip" =>
             /\ DOMAIN idb'.trips = DOMAIN idb.trips
             /\ DOMAIN remote'.trips = DOMAIN remote.trips
        /\ last'.op = "syncTripsFromServer" =>
             /\ \A k \in DOMAIN idb.trips : k \in DOMAIN idb'.trips
             /\ DOMAIN idb'.trips \ DOMAIN idb.trips \subseteq DOMAIN remote.trips]_vars

\* a trip stored locally under the id the remote assigned, updated at the
\* remote and locally under that id
C22_Witness ==
  /\ last.op = "updateTrip"
  /\ last.o = "ok"
  /\ last.id \in DOMAIN idb.trips \cap DOMAIN remote.trips
  /\ "local.put" \in Range(last.log)
  /\ idb.trips[last.id].name = last.name
  /\ remote.trips[last.id] = idb.trips[last.id]
  /\ \E k \in DOMAIN idb.trips : k # last.id

\* C28: every expense the expense form wrote carries as mileageValue its
\* stored mileage (a whole number of kilometres) times 1.09, written with
\* exactly two decimals.
C28_MileageValueFromMileage ==
  form.saved.written =>
    /\ form.saved.mileage # NaN
    /\ form.saved.mileageValue = toFixed2(form.saved.mileage * MILEAGE_RATE, 100)

\* the sum of the six stored amounts, absent ones counting 0, in thousandths
SumAmounts(d) ==
  OrZero(parseFloat(d.amounts["breakfastValue"]))
    + OrZero(parseFloat(d.amounts["lunchValue"]))
    + OrZero(parseFloat(d.amounts["dinnerValue"]))
    + OrZero(parseFloat(d.amounts["transportValue"]))
    + OrZero(parseFloat(d.amounts["parkingValue"]))
    + OrZero(parseFloat(d.amounts["otherValue"]))

\* C27: every expense the expense form wrote carries as total the sum of
\* its six stored amounts and of its stored mileage times 1.09, rounded to
\* two decimals.
C27_TotalIsSumOfParts ==
  form.saved.written =>
    /\ form.saved.mileage # NaN
    /\ form.saved.totalValue =
         toFixed2(SumAmounts(form.saved)
                    + form.saved.mileage * MILEAGE_RATE * (Unit \div 100), Unit)

\* the expense form lacks a destination, a justification or a receipt image
LacksRequired(f) ==
  \/ trim(f.destination) = <<>>
  \/ trim(f.justification) = <<>>
  \/ ~f.receipt

\* C21: a submission of the trip form with an empty or whitespace-only
\* name, and a submission of the expense form without destination,
\* justification or receipt image, is refused before any write: the step
\* leaves the local database and the remote as they were and records no
\* local or remote call.
C21_InvalidFormWritesNothing ==
  [][/\ (/\ ops' # ops
         /\ last'.op \in {"saveTrip", "tripForm"}
         /\ trim(TextOf(last'.name)) = <<>>) =>
          /\ last'.op = "tripForm"
          /\ last'.err = "Invalid"
          /\ last'.log = <<>>
          /\ idb' = idb
          /\ remote' = remote
     /\ (/\ ops' # ops
         /\ form.open
         /\ last'.op \in {"saveExpense", "expenseForm"}
         /\ form' = form \/ ~form'.open
         /\ LacksRequired(form)) =>
          /\ last'.op = "expenseForm"
          /\ last'.err = "Invalid"
          /\ last'.log = <<>>
          /\ idb' = idb
          /\ remote' = remote
          /\ form' = form]_vars

\* an expense form with destination and justification filled in, submitted
\* without a receipt image and refused, the one stored trip still without
\* expenses
C21_Witness ==
  /\ last.op = "expenseForm"
  /\ last.err = "Invalid"
  /\ form.open
  /\ ~form.receipt
  /\ trim(form.destination) # <<>>
  /\ trim(form.justification) # <<>>
  /\ Cardinality(DOMAIN idb.trips) = 1
  /\ idb.expenses = EmptyStore

\* C31: once the application runs, the version every getDB asks for (the
\* store module's DB_VERSION, the reconciliation module's version 1) is not
\* lower than the version the local database has, so no open request fails
\* with a version error.
C31_OpensNotBelowStoreVersion ==
  booted =>
    /\ ~VersionError(idb, DB_VERSION)
    /\ ~VersionError(idb, SYNC_DB_VERSION)

\* the identity getCPF() reads from the database db
StoredCpf(db) == getCPF([db |-> db, fs |-> <<>>]).cpf

\* C32: a completed verifyAndFixDatabase(cpf) that started with cpf stored
\* as the identity leaves the identity record in place: getCPF() still
\* returns cpf afterwards.
C32_FullPassKeepsIdentity ==
  [][(/\ ops' # ops
      /\ last'.op = "verifyAndFixDatabase"
      /\ last'.ret # -1
      /\ StoredCpf(idb) = last'.cpf) =>
       /\ "user" \in DOMAIN idb'.cpf
       /\ StoredCpf(idb') = last'.cpf]_vars

\* the operations that list trips or reconcile the local store with the remote
ListingOps == {"getTripsByCpf", "syncTripsFromServer", "verifyAndFixDatabase"}

\* C33: after deleteTrip(id) has completed and removed the trip from the
\* local store, a listing or reconciliation operation does not bring a trip
\* with that id back into the local store.
C33_DeletedTripStaysDeleted ==
  [][(/\ ops' # ops
      /\ last.op = "deleteTrip"
      /\ last.err = ""
      /\ last.id \notin DOMAIN idb.trips
      /\ last'.op \in ListingOps) =>
       last.id \notin DOMAIN idb'.trips]_vars

\* the trip stored locally under id is not the trip the remote holds under
\* id: it was written by the fallback of saveTrip under a generated key
\* (no trip is edited in the behaviours this is evaluated in)
LocalOnly(db, rem, id) ==
  /\ id \in DOMAIN db.trips
  /\ id \in DOMAIN rem.trips => rem.trips[id] # db.trips[id]

\* C34: deleteTrip(id) of a trip that exists only locally leaves the
\* remote store as it was.
C34_LocalOnlyDeleteSparesRemote ==
  [][(/\ ops' # ops
      /\ last'.op = "deleteTrip"
      /\ LocalOnly(idb, remote, last'.id)) =>
       remote' = remote]_vars

\* C35: the result of getTripsByCpf(c) contains every trip of c the local
\* store holds: a trip saved for c, through the remote or through the local
\* fallback, and not deleted since, is in the list whether or not the
\* remote was reachable for the listing.
C35_SavedTripsAreListed ==
  last.op = "getTripsByCpf" =>
    \A k \in DOMAIN idb.trips :
      idb.trips[k].cpf = last.cpf => idb.trips[k] \in last.list

\* C36: when two updateTrip calls on one trip, both answered with success
\* by the remote, have completed, the local record and the remote record of
\* the trip hold the same values.
C36_ConcurrentUpdatesConverge ==
  (/\ pending[1].pc = "done" /\ pending[2].pc = "done"
   /\ pending[1].id = pending[2].id
   /\ pending[1].o = "ok" /\ pending[2].o = "ok"
   /\ pending[1].id \in DOMAIN idb.trips \cap DOMAIN remote.trips) =>
    idb.trips[pending[1].id] = remote.trips[pending[1].id]

\* C37: an expense created through the expense form while the remote is
\* reachable has in the local store the identifier the remote assigned to
\* its remote copy.
C37_ExpenseCopiesShareIdentifier ==
  (last.op = "saveExpense" /\ last.o = "ok" /\ last.err = "") =>
    /\ last.ret = remote.nextExp - 1
    /\ last.ret \in DOMAIN idb.expenses \cap DOMAIN remote.expenses
    /\ remote.expenses[last.ret] = idb.expenses[last.ret]

\* every expense of the local store belongs to a trip of the local store
NoOrphans(db) ==
  \A e \in DOMAIN db.expenses : db.expenses[e].tripId \in DOMAIN db.trips

\* C38: in every reachable state every expense of the local store carries
\* as tripId the key of a trip in the local trips store.
C38_NoOrphanedExpenses == NoOrphans(idb)

\* C39: every call of verifyAndFixDatabase whose requests all settle
\* returns: a call in flight is eventually no longer in flight, and what it
\* returned is true or false.
C39_FullPassReturns ==
  /\ (session.call.pc # "idle") ~> (session.call.pc = "idle")
  /\ [](last.op = "verifyAndFixDatabase" => last.ret \in {0, 1})

\* a call that met a store it could not open after the wipe, took the
\* fallback path and returned true, with a trip held by the remote
C39_Witness ==
  /\ last.op = "verifyAndFixDatabase"
  /\ session.call.pc = "idle"
  /\ last.o = "ok"
  /\ "fallback" \in Range(last.log)
  /\ last.ret = 1
  /\ remote.trips # EmptyStore

====
